---- MODULE Spec2Model ----
(***************************************************************************)
(* A model of the airust retrieval core: the MatchAgent (exact and fuzzy  *)
(* matching), the TfidfAgent (BM25 ranking) and the ContextAgent that     *)
(* wraps a matcher with a bounded window of earlier (question, answer)    *)
(* pairs; and of what stands around it: the KnowledgeBase, the text       *)
(* utilities, the default methods of the Agent trait and the PdfLoader's  *)
(* cutting of a text into chunks.                                         *)
(*                                                                         *)
(* Text.  A Rust String is modelled as a sequence of characters; a        *)
(* character is a one-symbol TLA+ string.  The two non-ASCII letters of   *)
(* the alphabet are written "U+E4" (a-umlaut) and "U+C4" (A-umlaut); they *)
(* take two bytes each in UTF-8.                                           *)
(***************************************************************************)
EXTENDS Integers, Sequences, FiniteSets, TLC

VARIABLES
    agent,              \* which matcher the state is about: "MatchAgent" or "TfidfAgent"
    strategy,           \* MatchAgent.strategy
    memory,             \* MatchAgent.memory : Vec<TrainingExample>
    docs,               \* TfidfAgent.docs : Vec<TrainingExample>
    term_df,            \* TfidfAgent.term_df : IndexMap<String, f32>
    doc_term_freq,      \* TfidfAgent.doc_term_freq : Vec<IndexMap<String, f32>>
    doc_count,          \* TfidfAgent.doc_count
    bm25_k1,            \* TfidfAgent.bm25_k1, in tenths
    bm25_b,             \* TfidfAgent.bm25_b, in quarters
    context_history,    \* ContextAgent.context_history : VecDeque<(String, ResponseFormat)>
    max_context_items,  \* ContextAgent.max_context_items
    context_format,     \* ContextAgent.context_format
    op,                 \* the operation that produced the current state
    query,              \* argument of the last predict since the corpus was set
    passed,             \* string that predict handed to the matcher itself
    response,           \* value that predict returned
    added,              \* history: pairs given to add_context since construction / the last clear
    examples,           \* KnowledgeBase.examples : Vec<TrainingExample>
    writer,             \* TRUE while a train call holds the matcher by &mut self
    request,            \* a predict issued while a train call was running: pending or served
    stale,              \* history: the last train call replaced an index holding terms its corpus lacks
    util                \* the last call of a utility or of can_answer: its name, arguments and result

matchVars == <<strategy, memory>>
tfidfVars == <<docs, term_df, doc_term_freq, doc_count, bm25_k1, bm25_b>>
contextVars == <<context_history, max_context_items, context_format>>
lastVars == <<query, passed, response>>
kbVars == <<examples, writer, request, stale>>

vars == <<agent, matchVars, tfidfVars, contextVars, op, lastVars, added, kbVars, util>>

-----------------------------------------------------------------------------
(* Bounds of the model.                                                    *)

MaxContextItems == 2    \* capacities 0 .. MaxContextItems are explored
MaxAdds == 3            \* add_context calls between two clears
MaxCorpus == 2          \* examples in one corpus handed to train
MaxExamples == 2        \* examples in the KnowledgeBase
MaxTextLen == 2         \* characters of a text handed to a text utility
MaxWords == 3           \* words of a text handed to jaccard_similarity
MaxChunkText == 4       \* characters of a text handed to the PdfLoader

-----------------------------------------------------------------------------
(* Characters and strings.                                                 *)

\* char::to_lowercase on the characters of the model: the ASCII capitals and
\* the capital umlaut have a lowercase form, every other character is its own.
UpperToLower ==
    ("A" :> "a") @@ ("B" :> "b") @@ ("C" :> "c") @@ ("D" :> "d") @@ ("E" :> "e") @@
    ("F" :> "f") @@ ("G" :> "g") @@ ("H" :> "h") @@ ("I" :> "i") @@ ("J" :> "j") @@
    ("K" :> "k") @@ ("L" :> "l") @@ ("M" :> "m") @@ ("N" :> "n") @@ ("O" :> "o") @@
    ("P" :> "p") @@ ("Q" :> "q") @@ ("R" :> "r") @@ ("S" :> "s") @@ ("T" :> "t") @@
    ("U" :> "u") @@ ("V" :> "v") @@ ("W" :> "w") @@ ("X" :> "x") @@ ("Y" :> "y") @@
    ("Z" :> "z") @@ ("U+C4" :> "U+E4")

ToLowerChar(c) == IF c \in DOMAIN UpperToLower THEN UpperToLower[c] ELSE c

\* str::to_lowercase: character by character.
to_lowercase(s) == [i \in 1..Len(s) |-> ToLowerChar(s[i])]

\* Number of bytes of the UTF-8 encoding of a character.
Utf8Len(c) == IF c \in {"U+E4", "U+C4"} THEN 2 ELSE 1

\* str::len: the length in bytes.
RECURSIVE ByteLen(_)
ByteLen(s) == IF s = <<>> THEN 0 ELSE Utf8Len(Head(s)) + ByteLen(Tail(s))

Min2(x, y) == IF x <= y THEN x ELSE y

\* char::is_alphabetic
IsAlphabetic(c) ==
    \/ c \in DOMAIN UpperToLower
    \/ c \in {UpperToLower[u] : u \in DOMAIN UpperToLower}

\* char::is_whitespace
IsWhitespace(c) == c = " "

\* str::split_whitespace; word is the token being read
RECURSIVE split_whitespace(_, _)
split_whitespace(s, word) ==
    IF s = <<>>
    THEN IF word = <<>> THEN <<>> ELSE <<word>>
    ELSE IF IsWhitespace(Head(s))
    THEN (IF word = <<>> THEN <<>> ELSE <<word>>) \o split_whitespace(Tail(s), <<>>)
    ELSE split_whitespace(Tail(s), Append(word, Head(s)))

\* text_utils::tokenize: lowercase, keep alphabetic and whitespace characters, split
tokenize(text) ==
    split_whitespace(
        SelectSeq(to_lowercase(text), LAMBDA c : IsAlphabetic(c) \/ IsWhitespace(c)),
        <<>>)

\* text_utils::unique_terms: the tokens of the text, as a set
unique_terms(text) == LET terms == tokenize(text) IN {terms[j] : j \in 1..Len(terms)}

-----------------------------------------------------------------------------
(* ResponseFormat and TrainingExample.                                     *)

Text(s) == [kind |-> "Text", value |-> s]
Markdown(s) == [kind |-> "Markdown", value |-> s]
\* A Json payload holding the JSON string s.
Json(s) == [kind |-> "Json", value |-> s]

\* impl From<ResponseFormat> for String: the text, the markdown source, or the
\* serialized JSON value (a JSON string is serialized inside double quotes).
ResponseToString(r) ==
    IF r.kind = "Json" THEN <<"\"">> \o r.value \o <<"\"">> ELSE r.value

Example(i, o, w) == [input |-> i, output |-> o, weight |-> w]

NoTrainingData ==
    Text(<<"N", "o", " ", "t", "r", "a", "i", "n", "i", "n", "g", " ", "d", "a", "t",
           "a", " ", "a", "v", "a", "i", "l", "a", "b", "l", "e", ".">>)

NoMatch ==
    Text(<<"N", "o", " ", "m", "a", "t", "c", "h", "i", "n", "g", " ", "a", "n", "s",
           "w", "e", "r", " ", "f", "o", "u", "n", "d", ".">>)

-----------------------------------------------------------------------------
(* Agent::confidence and Agent::can_answer, the default methods of the     *)
(* trait.  Both call self.predict(input) first; the operators take the     *)
(* response that call returned.  A confidence is held in tenths.           *)

\* str::contains(pat)
Contains(s, pat) ==
    \E i \in 1..(Len(s) - Len(pat) + 1) : SubSeq(s, i, i + Len(pat) - 1) = pat

NoMatchPhrase ==
    <<"N", "o", " ", "m", "a", "t", "c", "h", "i", "n", "g", " ", "a", "n",
      "s", "w", "e", "r", " ", "f", "o", "u", "n", "d">>

NoTrainingDataPhrase ==
    <<"N", "o", " ", "t", "r", "a", "i", "n", "i", "n", "g", " ", "d", "a",
      "t", "a", " ", "a", "v", "a", "i", "l", "a", "b", "l", "e">>

\* The match of Agent::confidence on predicted, the response of self.predict(input)
confidence(predicted) ==
    IF predicted.kind \in {"Text", "Markdown"}
    THEN IF Contains(predicted.value, NoMatchPhrase)
            \/ Contains(predicted.value, NoTrainingDataPhrase)
         THEN 0
         ELSE 10
    ELSE 10

\* Agent::can_answer: self.confidence(input) > 0.5
can_answer(predicted) == confidence(predicted) > 5

-----------------------------------------------------------------------------
(* strsim::levenshtein, the edit distance MatchAgent calls.  The crate's  *)
(* generic_levenshtein keeps one row `cache` and walks a (outer loop) and *)
(* b (inner loop) character by character.                                  *)

\* Stands for usize::MAX: larger than every distance and every length of the model.
UsizeMax == 2147483647

RECURSIVE StrsimInner(_, _, _, _, _, _)
StrsimInner(a_elem, b, j, cache, result, distance_b) ==
    IF j > Len(b)
    THEN [cache |-> cache, result |-> result]
    ELSE LET cost == IF a_elem = b[j] THEN 0 ELSE 1
             distance_a == distance_b + cost
             next_b == cache[j]
             r == Min2(result + 1, Min2(distance_a, next_b + 1))
         IN  StrsimInner(a_elem, b, j + 1, [cache EXCEPT ![j] = r], r, next_b)

RECURSIVE StrsimOuter(_, _, _, _, _)
StrsimOuter(a, b, i, cache, result) ==
    IF i > Len(a)
    THEN result
    ELSE LET s == StrsimInner(a[i], b, 1, cache, i, i - 1)
         IN  StrsimOuter(a, b, i + 1, s.cache, s.result)

levenshtein(a, b) ==
    IF a = <<>> THEN Len(b)
    ELSE StrsimOuter(a, b, 1, [k \in 1..Len(b) |-> k], 0)

-----------------------------------------------------------------------------
(* text_utils::levenshtein_distance, the crate's own edit distance.  It    *)
(* keeps two rows of b_len + 1 entries, cache (the row of the previous     *)
(* character of a) and distances (the row being filled), and swaps them    *)
(* after every character of a.  Row entry j of the code is entry j + 1     *)
(* here.                                                                   *)

\* the inner loop over b_chars, from its j-th character on
RECURSIVE levenshtein_distance_row(_, _, _, _, _)
levenshtein_distance_row(a_char, b_chars, j, cache, distances) ==
    IF j > Len(b_chars)
    THEN distances
    ELSE LET cost == IF a_char = b_chars[j] THEN 0 ELSE 1
             d == Min2(Min2(distances[j] + 1, cache[j + 1] + 1), cache[j] + cost)
         IN  levenshtein_distance_row(a_char, b_chars, j + 1, cache,
                                      [distances EXCEPT ![j + 1] = d])

\* the outer loop over a_chars, from its i-th character on
RECURSIVE levenshtein_distance_rows(_, _, _, _, _)
levenshtein_distance_rows(a_chars, b_chars, i, cache, distances) ==
    IF i > Len(a_chars)
    THEN cache[Len(b_chars) + 1]
    ELSE LET row == levenshtein_distance_row(a_chars[i], b_chars, 1, cache,
                                             [distances EXCEPT ![1] = i])
         IN  levenshtein_distance_rows(a_chars, b_chars, i + 1, row, cache)

\* Mutant: the length of b is taken in bytes when a is empty.
levenshtein_distance_bytes(a, b) ==
    IF a = <<>> THEN ByteLen(b)
    ELSE IF b = <<>> THEN Len(a)
    ELSE levenshtein_distance_rows(a, b, 1, [k \in 1..(Len(b) + 1) |-> k - 1],
                                   [k \in 1..(Len(b) + 1) |-> 0])

\* text_utils::levenshtein_distance; chars().count() is the length of the sequence
levenshtein_distance(a, b) ==
    IF a = <<>> THEN Len(b)
    ELSE IF b = <<>> THEN Len(a)
    ELSE levenshtein_distance_rows(a, b, 1, [k \in 1..(Len(b) + 1) |-> k - 1],
                                   [k \in 1..(Len(b) + 1) |-> 0])

-----------------------------------------------------------------------------
(* text_utils::jaccard_similarity.  The f32 it returns is held in units of *)
(* 1/10000, as the scores of the TfidfAgent are; 1.0 is Ratio(1, 1).       *)

\* x as f32 / y as f32, for y > 0
Ratio(x, y) == (x * 10000) \div y

\* tokenize(text).into_iter().collect::<HashSet<_>>()
CollectSet(terms) == {terms[j] : j \in 1..Len(terms)}

\* Mutant: the tokens are counted as they come, a repeated token as often as
\* it occurs.
jaccard_similarity_tokens(a, b) ==
    LET seq_a == tokenize(a)
        seq_b == tokenize(b)
        intersection ==
            Cardinality({j \in 1..Len(seq_a) : \E k \in 1..Len(seq_b) : seq_b[k] = seq_a[j]})
        union ==
            Len(seq_a)
            + Cardinality({k \in 1..Len(seq_b) : \A j \in 1..Len(seq_a) : seq_a[j] # seq_b[k]})
    IN  IF union = 0 THEN 0 ELSE Ratio(intersection, union)

\* text_utils::jaccard_similarity: set_a.intersection(&set_b) walks set_a and
\* keeps what set_b contains; set_a.union(&set_b) is set_a followed by what
\* set_b has beyond it
jaccard_similarity(a, b) ==
    LET set_a == CollectSet(tokenize(a))
        set_b == CollectSet(tokenize(b))
        intersection == Cardinality({t \in set_a : t \in set_b})
        union == Cardinality(set_a) + Cardinality({t \in set_b : t \notin set_a})
    IN  IF union = 0 THEN 0 ELSE Ratio(intersection, union)

-----------------------------------------------------------------------------
(* text_utils::create_ngrams.                                              *)

\* Mutant: the range of the window starts is 0..chars.len() - n, its end left out.
create_ngrams_exclusive(text, n) ==
    IF text = <<>> \/ n = 0 THEN <<>>
    ELSE IF Len(text) < n THEN <<text>>
    ELSE [i \in 1..(Len(text) - n) |-> SubSeq(text, i, i + n - 1)]

\* text_utils::create_ngrams: chars[i..i + n] for i in 0..=chars.len() - n;
\* window i of the code is entry i + 1 here
create_ngrams(text, n) ==
    IF text = <<>> \/ n = 0 THEN <<>>
    ELSE IF Len(text) < n THEN <<text>>
    ELSE [i \in 1..(Len(text) - n + 1) |-> SubSeq(text, i, i + n - 1)]

-----------------------------------------------------------------------------
(* MatchAgent.                                                             *)

\* An Option<T> is the empty set (None) or a singleton (Some(v)).
None == {}
Some(v) == {v}
Unwrap(o) == CHOOSE v \in o : TRUE

Exact == [kind |-> "Exact"]
\* threshold_factor is an f32; the model holds it in tenths (3 is 0.3).
Fuzzy(max_distance, threshold_factor) ==
    [kind |-> "Fuzzy", max_distance |-> max_distance, threshold_factor |-> threshold_factor]

\* FuzzyOptions::default()
FuzzyOptionsDefault == Fuzzy(None, Some(3))

\* (input_lower.len() as f32 * factor) as usize: the product truncated toward
\* zero, a negative product saturating to 0.  For the factors of the model
\* and lengths below 200 the f32 product truncates to the same integer as
\* the exact product.
ThresholdOf(options, input_lower) ==
    IF options.threshold_factor = None
    THEN UsizeMax
    ELSE LET tenths == ByteLen(input_lower) * Unwrap(options.threshold_factor)
         IN  IF tenths < 0 THEN 0 ELSE tenths \div 10

\* Mutant: the query is compared as typed, not lowercased.
RECURSIVE ExactScanRawQuery(_, _, _)
ExactScanRawQuery(mem, input, k) ==
    IF k > Len(mem) THEN NoMatch
    ELSE IF to_lowercase(mem[k].input) = input THEN mem[k].output
    ELSE ExactScanRawQuery(mem, input, k + 1)

\* MatchingStrategy::Exact: the first item whose lowercased input equals the
\* lowercased query.
RECURSIVE ExactScan(_, _, _)
ExactScan(mem, input, k) ==
    IF k > Len(mem) THEN NoMatch
    ELSE IF to_lowercase(mem[k].input) = to_lowercase(input) THEN mem[k].output
    ELSE ExactScan(mem, input, k + 1)

\* Mutant: an item replaces the best one when it is as near (score <= best_score).
RECURSIVE FuzzyScanLastWins(_, _, _, _, _, _, _)
FuzzyScanLastWins(mem, options, input_lower, threshold, k, best_score, best_match) ==
    IF k > Len(mem)
    THEN best_match
    ELSE LET score == levenshtein(to_lowercase(mem[k].input), input_lower)
         IN  IF options.max_distance # None /\ score > Unwrap(options.max_distance)
             THEN FuzzyScanLastWins(mem, options, input_lower, threshold, k + 1,
                                    best_score, best_match)
             ELSE IF score > threshold
             THEN FuzzyScanLastWins(mem, options, input_lower, threshold, k + 1,
                                    best_score, best_match)
             ELSE IF score <= best_score
             THEN FuzzyScanLastWins(mem, options, input_lower, threshold, k + 1, score, k)
             ELSE FuzzyScanLastWins(mem, options, input_lower, threshold, k + 1,
                                    best_score, best_match)

\* Mutant: the derived threshold is exclusive (score >= threshold is skipped).
RECURSIVE FuzzyScanExclusiveThreshold(_, _, _, _, _, _, _)
FuzzyScanExclusiveThreshold(mem, options, input_lower, threshold, k, best_score, best_match) ==
    IF k > Len(mem)
    THEN best_match
    ELSE LET score == levenshtein(to_lowercase(mem[k].input), input_lower)
         IN  IF options.max_distance # None /\ score > Unwrap(options.max_distance)
             THEN FuzzyScanExclusiveThreshold(mem, options, input_lower, threshold, k + 1,
                                              best_score, best_match)
             ELSE IF score >= threshold
             THEN FuzzyScanExclusiveThreshold(mem, options, input_lower, threshold, k + 1,
                                              best_score, best_match)
             ELSE IF score < best_score
             THEN FuzzyScanExclusiveThreshold(mem, options, input_lower, threshold, k + 1,
                                              score, k)
             ELSE FuzzyScanExclusiveThreshold(mem, options, input_lower, threshold, k + 1,
                                              best_score, best_match)

\* The fuzzy loop from item k on; best_match is the index of the best item, 0 for None.
RECURSIVE FuzzyScan(_, _, _, _, _, _, _)
FuzzyScan(mem, options, input_lower, threshold, k, best_score, best_match) ==
    IF k > Len(mem)
    THEN best_match
    ELSE LET score == levenshtein(to_lowercase(mem[k].input), input_lower)
         IN  IF options.max_distance # None /\ score > Unwrap(options.max_distance)
             THEN FuzzyScan(mem, options, input_lower, threshold, k + 1, best_score, best_match)
             ELSE IF score > threshold
             THEN FuzzyScan(mem, options, input_lower, threshold, k + 1, best_score, best_match)
             ELSE IF score < best_score
             THEN FuzzyScan(mem, options, input_lower, threshold, k + 1, score, k)
             ELSE FuzzyScan(mem, options, input_lower, threshold, k + 1, best_score, best_match)

FuzzyBest(mem, options, input) ==
    LET input_lower == to_lowercase(input)
    IN  FuzzyScan(mem, options, input_lower, ThresholdOf(options, input_lower),
                  1, UsizeMax, 0)

\* Mutant: predict answers an empty query with the no-match sentinel at once.
MatchAgent_predictRejectEmpty(mem, strat, input) ==
    IF mem = <<>> THEN NoTrainingData
    ELSE IF input = <<>> THEN NoMatch
    ELSE IF strat.kind = "Exact" THEN ExactScan(mem, input, 1)
    ELSE LET best_match == FuzzyBest(mem, strat, input)
         IN  IF best_match = 0 THEN NoMatch ELSE mem[best_match].output

\* impl Agent for MatchAgent: predict
MatchAgent_predict(mem, strat, input) ==
    IF mem = <<>> THEN NoTrainingData
    ELSE IF strat.kind = "Exact" THEN ExactScan(mem, input, 1)
    ELSE LET best_match == FuzzyBest(mem, strat, input)
         IN  IF best_match = 0 THEN NoMatch ELSE mem[best_match].output

\* impl TrainableAgent for MatchAgent: train stores data.to_vec()
MatchAgent_train(data) == data

\* TrainableAgent::train_single: the slice it hands to self.train, &[example.clone()]
train_single(example) == <<example>>

\* TrainableAgent::add_example: builds the example and calls train_single
add_example(input, output, weight) == train_single(Example(input, output, weight))

-----------------------------------------------------------------------------
(* TfidfAgent.  An IndexMap<String, f32> of counts is a function from its  *)
(* keys to integers.  A BM25 score is an f32: the model holds it as a      *)
(* fixed-point integer in units of 1/10000, or as NaN.  bm25_k1 is held in *)
(* tenths, bm25_b in quarters and an example's weight in tenths, so a      *)
(* final score is in units of 1/100000.                                    *)

\* f32::ln on the integers 1 .. 12, in units of 1/10000.
LnTable ==
    <<0, 6931, 10986, 13863, 16094, 17918, 19459, 20794, 21972, 23026, 23979, 24849>>

F(v) == [nan |-> FALSE, v |-> v]
NaN == [nan |-> TRUE, v |-> 0]

\* f32 addition and multiplication by a weight: NaN is absorbing
FAdd(x, y) == IF x.nan \/ y.nan THEN NaN ELSE F(x.v + y.v)
FScale(x, w) == IF x.nan THEN NaN ELSE F(x.v * w)
\* x > y on f32: false when either side is NaN
FGreater(x, y) == ~x.nan /\ ~y.nan /\ x.v > y.v

\* *map.entry(term).or_insert(0.0) += 1.0
Bump(map, term) ==
    IF term \in DOMAIN map THEN [map EXCEPT ![term] = @ + 1] ELSE map @@ (term :> 1)

\* for term in &terms { bump doc_terms }
RECURSIVE CountTerms(_, _)
CountTerms(terms, doc_terms) ==
    IF terms = <<>> THEN doc_terms
    ELSE CountTerms(Tail(terms), Bump(doc_terms, Head(terms)))

\* for term in unique_terms { bump term_df }; unique is the set still to visit
RECURSIVE BumpAll(_, _)
BumpAll(map, unique) ==
    IF unique = {} THEN map
    ELSE LET term == CHOOSE t \in unique : TRUE
         IN  BumpAll(Bump(map, term), unique \ {term})

\* Mutant: the document frequency is bumped for every token, not once for
\* every distinct term.
TrainDocEveryToken(doc, df, dtf) ==
    LET terms == tokenize(doc.input)
        doc_terms == CountTerms(terms, <<>>)
    IN  [term_df |-> CountTerms(terms, df), doc_term_freq |-> Append(dtf, doc_terms)]

\* TfidfAgent::train, the body of the loop for one document: count its terms,
\* bump the document frequency of each distinct term, push its term table.
TrainDoc(doc, df, dtf) ==
    LET terms == tokenize(doc.input)
        doc_terms == CountTerms(terms, <<>>)
        unique == {terms[j] : j \in 1..Len(terms)}
    IN  [term_df |-> BumpAll(df, unique), doc_term_freq |-> Append(dtf, doc_terms)]

\* TfidfAgent::train, the loop over self.docs from document i on
RECURSIVE TrainLoop(_, _, _, _)
TrainLoop(data, i, df, dtf) ==
    IF i > Len(data)
    THEN [term_df |-> df, doc_term_freq |-> dtf]
    ELSE LET done == TrainDoc(data[i], df, dtf)
         IN  TrainLoop(data, i + 1, done.term_df, done.doc_term_freq)

\* impl TrainableAgent for TfidfAgent: train resets and rebuilds every table
TfidfAgent_train(self, data) ==
    LET built == TrainLoop(data, 1, <<>>, <<>>)
    IN  [self EXCEPT !.docs = data,
                     !.doc_count = Len(data),
                     !.term_df = built.term_df,
                     !.doc_term_freq = built.doc_term_freq]

\* doc.values().sum()
RECURSIVE SumValues(_)
SumValues(map) ==
    IF DOMAIN map = {} THEN 0
    ELSE LET t == CHOOSE x \in DOMAIN map : TRUE
         IN  map[t] + SumValues([x \in DOMAIN map \ {t} |-> map[x]])

\* the sum of all document lengths (avg_doc_len is TotalLen / doc_count)
RECURSIVE TotalLen(_)
TotalLen(dtf) == IF dtf = <<>> THEN 0 ELSE SumValues(Head(dtf)) + TotalLen(Tail(dtf))

\* One query term's contribution to bm25_score for document doc_idx:
\*   idf = ln(1 + (N - df + 0.5) / (df + 0.5)) = ln((2N + 2) / (2 df + 1))
\*   idf * tf * (k1 + 1) / (tf + k1 * (1 - b + b * doc_len / avg_doc_len))
\* with the ratio written over the common denominator 40 * TotalLen.  k1 > 0
\* in every state of the model, so the denominator is 0 only with tf = 0,
\* where the code divides 0.0 by 0.0.
TermScore(self, term, doc_idx) ==
    IF term \notin DOMAIN self.term_df
    THEN F(0)
    ELSE LET df == self.term_df[term]
             total == TotalLen(self.doc_term_freq)
             doc_len == SumValues(self.doc_term_freq[doc_idx])
             idf == LnTable[2 * self.doc_count + 2] - LnTable[2 * df + 1]
             tf == IF term \in DOMAIN self.doc_term_freq[doc_idx]
                   THEN self.doc_term_freq[doc_idx][term] ELSE 0
             numerator == tf * (self.bm25_k1 + 10) * 4 * total
             denominator == tf * 40 * total
                            + self.bm25_k1 * ((4 - self.bm25_b) * total
                                              + self.bm25_b * doc_len * self.doc_count)
         IN  IF denominator = 0 THEN NaN ELSE F((idf * numerator) \div denominator)

\* TfidfAgent::bm25_score: the sum over the query terms
RECURSIVE bm25_score(_, _, _)
bm25_score(self, query_terms, doc_idx) ==
    IF query_terms = <<>> THEN F(0)
    ELSE FAdd(TermScore(self, Head(query_terms), doc_idx),
              bm25_score(self, Tail(query_terms), doc_idx))

\* scores: (i, bm25_score * doc.weight) for every document
Scores(self, query_terms) ==
    [i \in 1..Len(self.docs) |->
        <<i, FScale(bm25_score(self, query_terms, i), self.docs[i].weight)>>]

\* Mutant: the comparison is a.1.partial_cmp(&b.1), score ascending.
RECURSIVE InsertTailAscending(_, _)
InsertTailAscending(sorted, x) ==
    IF sorted = <<>> THEN <<x>>
    ELSE IF FGreater(sorted[Len(sorted)][2], x[2])
    THEN Append(InsertTailAscending(SubSeq(sorted, 1, Len(sorted) - 1), x),
                sorted[Len(sorted)])
    ELSE Append(sorted, x)

\* sort_by(|a, b| b.1.partial_cmp(&a.1).unwrap_or(Equal)): a stable sort, score
\* descending; x goes before y only when x's score is greater, and a NaN score
\* compares Equal to every score.  The slices are short, where the standard
\* library sorts by insertion: x is inserted into the sorted prefix, moving
\* left past every entry it goes before.
RECURSIVE InsertTail(_, _)
InsertTail(sorted, x) ==
    IF sorted = <<>> THEN <<x>>
    ELSE IF FGreater(x[2], sorted[Len(sorted)][2])
    THEN Append(InsertTail(SubSeq(sorted, 1, Len(sorted) - 1), x), sorted[Len(sorted)])
    ELSE Append(sorted, x)

RECURSIVE SortScores(_, _)
SortScores(scores, n) ==
    IF n = 0 THEN <<>> ELSE InsertTail(SortScores(scores, n - 1), scores[n])

\* Mutant: predict without the empty-corpus check.
TfidfAgent_predictUnchecked(self, input) ==
    LET query_terms == tokenize(input)
        scores == Scores(self, query_terms)
        sorted == SortScores(scores, Len(scores))
    IN  IF sorted # <<>> /\ FGreater(sorted[1][2], F(0))
        THEN self.docs[sorted[1][1]].output
        ELSE NoMatch

\* Mutant: the best document is returned whatever its score.
TfidfAgent_predictAnyScore(self, input) ==
    IF self.docs = <<>>
    THEN NoTrainingData
    ELSE LET query_terms == tokenize(input)
             scores == Scores(self, query_terms)
             sorted == SortScores(scores, Len(scores))
         IN  IF sorted # <<>>
             THEN self.docs[sorted[1][1]].output
             ELSE NoMatch

\* impl Agent for TfidfAgent: predict
TfidfAgent_predict(self, input) ==
    IF self.docs = <<>>
    THEN NoTrainingData
    ELSE LET query_terms == tokenize(input)
             scores == Scores(self, query_terms)
             sorted == SortScores(scores, Len(scores))
         IN  IF sorted # <<>> /\ FGreater(sorted[1][2], F(0))
             THEN self.docs[sorted[1][1]].output
             ELSE NoMatch

\* TfidfAgent::new().with_bm25_params(k1, b)
TfidfAgent_new(k1, b) ==
    [docs |-> <<>>, term_df |-> <<>>, doc_term_freq |-> <<>>, doc_count |-> 0,
     bm25_k1 |-> k1, bm25_b |-> b]

\* The TfidfAgent held in the state.
Self ==
    [docs |-> docs, term_df |-> term_df, doc_term_freq |-> doc_term_freq,
     doc_count |-> doc_count, bm25_k1 |-> bm25_k1, bm25_b |-> bm25_b]

\* The state holds the TfidfAgent value a.
SetSelf(a) ==
    /\ docs = a.docs
    /\ term_df = a.term_df
    /\ doc_term_freq = a.doc_term_freq
    /\ doc_count = a.doc_count
    /\ bm25_k1 = a.bm25_k1
    /\ bm25_b = a.bm25_b

-----------------------------------------------------------------------------
(* ContextAgent.                                                           *)

\* ContextFormat: the three built-in formats, and Custom with one of two
\* closures of the caller: one that joins the questions with "|", and one
\* that returns the empty string for every history.
ContextFormats == {"QAPairs", "List", "Sentence", "Custom(questions)", "Custom(blank)"}

\* items.join(sep)
RECURSIVE Join(_, _)
Join(items, sep) ==
    IF items = <<>> THEN <<>>
    ELSE IF Len(items) = 1 THEN items[1]
    ELSE items[1] \o sep \o Join(Tail(items), sep)

\* QAPairs: push "Q: {} A: {} " for every pair, oldest first
RECURSIVE QAPairsString(_)
QAPairsString(history) ==
    IF history = <<>> THEN <<>>
    ELSE <<"Q", ":", " ">> \o Head(history)[1] \o <<" ", "A", ":", " ">>
         \o ResponseToString(Head(history)[2]) \o <<" ">> \o QAPairsString(Tail(history))

ListItems(history) ==
    [i \in 1..Len(history) |->
        history[i][1] \o <<" ", "-", ">", " ">> \o ResponseToString(history[i][2])]

SentenceItems(history) ==
    [i \in 1..Len(history) |->
        history[i][1] \o <<" ", "-", " ">> \o ResponseToString(history[i][2])]

\* ContextFormat::Custom(formatter): formatter(&history), the history being
\* the window's pairs collected oldest first
CustomFormatter(format, history) ==
    IF format = "Custom(questions)"
    THEN Join([i \in 1..Len(history) |-> history[i][1]], <<"|">>)
    ELSE <<>>

\* ContextAgent::get_context_string
get_context_string(format, history) ==
    CASE format = "QAPairs" -> QAPairsString(history)
      [] format = "List" -> <<"[">> \o Join(ListItems(history), <<",", " ">>) \o <<"]">>
      [] format = "Sentence" ->
            <<"P", "r", "e", "v", "i", "o", "u", "s", " ", "q", "u", "e", "s", "t", "i",
              "o", "n", "s", " ", "a", "n", "d", " ", "a", "n", "s", "w", "e", "r", "s",
              ":", " ">> \o Join(SentenceItems(history), <<";", " ">>)
      [] OTHER -> CustomFormatter(format, history)

\* ContextAgent::predict, the string handed to base_agent.predict
enhanced_input(format, history, input) ==
    LET context_str == get_context_string(format, history)
    IN  IF context_str = <<>>
        THEN input
        ELSE input \o <<" ", "[", "C", "o", "n", "t", "e", "x", "t", ":", " ">>
             \o context_str \o <<"]">>

\* Mutant: the loop stops one entry too early.
RECURSIVE EvictOldestLate(_, _)
EvictOldestLate(history, max) ==
    IF Len(history) > max + 1 THEN EvictOldestLate(Tail(history), max) ELSE history

\* add_context's loop: while len > max_context_items, pop_front
RECURSIVE EvictOldest(_, _)
EvictOldest(history, max) ==
    IF Len(history) > max THEN EvictOldest(Tail(history), max) ELSE history

\* Mutant: the loop drops the newest entry (pop_back) instead of the oldest.
RECURSIVE EvictNewest(_, _)
EvictNewest(history, max) ==
    IF Len(history) > max THEN EvictNewest(SubSeq(history, 1, Len(history) - 1), max)
    ELSE history

PushContextEvictNewest(history, max, question, answer) ==
    EvictNewest(Append(history, <<question, answer>>), max)

\* ContextAgent::add_context: push_back, then evict
PushContext(history, max, question, answer) ==
    EvictOldest(Append(history, <<question, answer>>), max)

\* No predict has been observed on the current corpus.
NoPredictYet(q, p, r) ==
    /\ q = <<>>
    /\ p = <<>>
    /\ r = Text(<<>>)

\* No utility has been called.
NoCall == [fn |-> "none"]

\* No KnowledgeBase is in use, no train call is running, no predict waits, and
\* no text_utils function has been called.
NoKnowledgeBase ==
    /\ examples = <<>>
    /\ writer = FALSE
    /\ request = "none"
    /\ stale = FALSE
    /\ util = NoCall

-----------------------------------------------------------------------------
(* Inputs of the context wrapper's model.                                  *)

ContextQueries == {<<"a">>, <<"b">>}

ContextPairs ==
    { <<<<"a">>, Text(<<"x">>)>>, <<<<"b">>, Markdown(<<"y">>)>>, <<<<"a">>, Json(<<"z">>)>> }

ContextCorpora ==
    { <<>>,
      <<Example(<<"a">>, Text(<<"x">>), 10)>>,
      <<Example(<<"b">>, Markdown(<<"y">>), 10), Example(<<"A">>, Text(<<"x">>), 10)>> }

-----------------------------------------------------------------------------
(* The context wrapper around an exact MatchAgent.                         *)

Init ==
    /\ agent = "MatchAgent"
    /\ strategy = Exact
    /\ SetSelf(TfidfAgent_new(12, 3))
    /\ memory = <<>>
    /\ context_history = <<>>
    /\ max_context_items \in 0..MaxContextItems
    /\ context_format \in ContextFormats
    /\ op = "new"
    /\ NoPredictYet(query, passed, response)
    /\ added = <<>>
    /\ NoKnowledgeBase

\* impl ContextualAgent for ContextAgent: add_context
ContextAddContext(question, answer) ==
    /\ Len(added) < MaxAdds
    /\ context_history' = PushContext(context_history, max_context_items, question, answer)
    /\ added' = Append(added, <<question, answer>>)
    /\ op' = "add_context"
    /\ UNCHANGED <<agent, matchVars, tfidfVars, max_context_items, context_format,
                   lastVars, kbVars, util>>

\* impl ContextualAgent for ContextAgent: clear_context
ContextClearContext ==
    /\ context_history' = <<>>
    /\ added' = <<>>
    /\ op' = "clear_context"
    /\ UNCHANGED <<agent, matchVars, tfidfVars, max_context_items, context_format,
                   lastVars, kbVars, util>>

\* Mutant: predict records the question and its answer in the window itself.
ContextPredictRecording(input) ==
    /\ query' = input
    /\ passed' = enhanced_input(context_format, context_history, input)
    /\ response' = MatchAgent_predict(memory, strategy, passed')
    /\ context_history' = PushContext(context_history, max_context_items, input, response')
    /\ op' = "predict"
    /\ UNCHANGED <<agent, matchVars, tfidfVars, max_context_items, context_format, added, kbVars, util>>

\* impl Agent for ContextAgent: predict
ContextPredict(input) ==
    /\ query' = input
    /\ passed' = enhanced_input(context_format, context_history, input)
    /\ response' = MatchAgent_predict(memory, strategy, passed')
    /\ op' = "predict"
    /\ UNCHANGED <<agent, matchVars, tfidfVars, contextVars, added, kbVars, util>>

\* Mutant: train also starts the conversation afresh.
ContextTrainClearing(data) ==
    /\ memory' = MatchAgent_train(data)
    /\ context_history' = <<>>
    /\ op' = "train"
    /\ NoPredictYet(query', passed', response')
    /\ UNCHANGED <<agent, strategy, tfidfVars, max_context_items, context_format, added,
                   kbVars, util>>

\* impl TrainableAgent for ContextAgent: train forwards to the base agent
ContextTrain(data) ==
    /\ memory' = MatchAgent_train(data)
    /\ op' = "train"
    /\ NoPredictYet(query', passed', response')
    /\ UNCHANGED <<agent, strategy, tfidfVars, contextVars, added, kbVars, util>>

Next ==
    \/ \E p \in ContextPairs : ContextAddContext(p[1], p[2])
    \/ ContextClearContext
    \/ \E q \in ContextQueries : ContextPredict(q)
    \/ \E data \in ContextCorpora : ContextTrain(data)

Spec == Init /\ [][Next]_vars

-----------------------------------------------------------------------------
(* One matcher used directly: a MatchAgent with any strategy of the model, *)
(* or a TfidfAgent with any parameters of the model.                       *)

\* Example inputs and queries of the MatchAgent.
MatchExamples ==
    { Example(<<"a", "b", "a", "b">>, Text(<<"x">>), 10),
      Example(<<"A", "B", "A", "B">>, Markdown(<<"y">>), 10),
      Example(<<"a", "b", "a", "a">>, Json(<<"z">>), 10),
      Example(<<"a", "b", "a">>, Text(<<"y">>), 10),
      Example(<<>>, Text(<<"x">>), 10) }

MatchQueries ==
    { <<"a", "b", "a", "b">>, <<"A", "b", "A", "b">>, <<"a", "b", "b", "b">>,
      <<"U+C4", "b", "a">>, <<"b", "b">>, <<"a">>, <<"?">>, <<>> }

\* The strategies MatchAgent::new is given: it stores any of them, also a
\* threshold factor below zero (-0.3).
MatchStrategies ==
    {Exact, Fuzzy(None, Some(0)), Fuzzy(None, Some(-3))}
        \cup { Fuzzy(d, f) : d \in {None, Some(0), Some(1)}, f \in {None, Some(3)} }

\* Examples and queries of the TfidfAgent; weights in tenths.
RankedExamples ==
    { Example(<<"a", " ", "b">>, Text(<<"x">>), 10),
      Example(<<"A", ",", " ", "c", "!">>, Markdown(<<"y">>), 10),
      Example(<<"b", " ", "b", " ", "c">>, Text(<<"z">>), 20),
      Example(<<"a", " ", "b">>, Json(<<"w">>), 0),
      Example(<<"1", "?">>, Text(<<"n">>), 10) }

RankedQueries ==
    { <<"a">>, <<"B", " ", "c", "?">>, <<"a", " ", " ", "b">>, <<"c", "1">>,
      <<"1", " ", "!">>, <<>> }

\* (k1 in tenths, b in quarters): the defaults 1.2 and 0.75, and the ends of b's range
RankedParams == { <<12, 3>>, <<12, 4>>, <<20, 0>> }

\* All sequences over the set S of length at most n.
RECURSIVE SeqsUpTo(_, _)
SeqsUpTo(S, n) ==
    IF n = 0 THEN {<<>>}
    ELSE LET shorter == SeqsUpTo(S, n - 1)
         IN  shorter \cup {Append(c, e) : c \in shorter, e \in S}

MatchCorpora == SeqsUpTo(MatchExamples, MaxCorpus)

\* Corpora of three documents: two with the same terms and the same weight,
\* and one whose input has no term, before or after them.
TieCorpora ==
    LET ab == Example(<<"a", " ", "b">>, Text(<<"x">>), 10)
        ba == Example(<<"b", " ", "a">>, Markdown(<<"v">>), 10)
        noTerm == Example(<<"1", "?">>, Text(<<"n">>), 10)
    IN  { <<noTerm, ab, ba>>, <<ba, ab, noTerm>> }

\* The corpus and the query of the crate's ranked-matcher example: "capital of
\* France" -> "Paris" and "capital of Germany" -> "Berlin", both of weight 1.0,
\* asked "What is the capital of France?".
CapitalsCorpus ==
    << Example(
         <<"c", "a", "p", "i", "t", "a", "l", " ", "o", "f", " ", "F", "r",
           "a", "n", "c", "e">>,
         Text(<<"P", "a", "r", "i", "s">>), 10),
       Example(
         <<"c", "a", "p", "i", "t", "a", "l", " ", "o", "f", " ", "G", "e",
           "r", "m", "a", "n", "y">>,
         Text(<<"B", "e", "r", "l", "i", "n">>), 10) >>

CapitalQuery ==
    <<"W", "h", "a", "t", " ", "i", "s", " ", "t", "h", "e", " ", "c", "a",
      "p", "i", "t", "a", "l", " ", "o", "f", " ", "F", "r", "a", "n", "c",
      "e", "?">>

RankedCorpora == SeqsUpTo(RankedExamples, MaxCorpus) \cup TieCorpora \cup {CapitalsCorpus}

InitAgent ==
    /\ agent \in {"MatchAgent", "TfidfAgent"}
    /\ strategy \in (IF agent = "MatchAgent" THEN MatchStrategies ELSE {Exact})
    /\ memory = <<>>
    /\ \E p \in (IF agent = "TfidfAgent" THEN RankedParams ELSE {<<12, 3>>}) :
            SetSelf(TfidfAgent_new(p[1], p[2]))
    /\ context_history = <<>>
    /\ max_context_items = 0
    /\ context_format = "QAPairs"
    /\ op = "new"
    /\ NoPredictYet(query, passed, response)
    /\ added = <<>>
    /\ NoKnowledgeBase

\* The state after self.train(data) on the TfidfAgent.
TfidfTrained(data) ==
    \E trained \in {TfidfAgent_train(Self, data)} :
        /\ docs' = trained.docs
        /\ term_df' = trained.term_df
        /\ doc_term_freq' = trained.doc_term_freq
        /\ doc_count' = trained.doc_count
        /\ UNCHANGED <<bm25_k1, bm25_b>>

MatchTrain(data) ==
    /\ agent = "MatchAgent"
    /\ memory' = MatchAgent_train(data)
    /\ op' = "train"
    /\ NoPredictYet(query', passed', response')
    /\ UNCHANGED <<agent, strategy, tfidfVars, contextVars, added, kbVars, util>>

MatchAddExample(input, output, weight) ==
    /\ agent = "MatchAgent"
    /\ memory' = MatchAgent_train(add_example(input, output, weight))
    /\ op' = "add_example"
    /\ NoPredictYet(query', passed', response')
    /\ UNCHANGED <<agent, strategy, tfidfVars, contextVars, added, kbVars, util>>

MatchPredict(input) ==
    /\ agent = "MatchAgent"
    /\ query' = input
    /\ passed' = input
    /\ response' = MatchAgent_predict(memory, strategy, input)
    /\ op' = "predict"
    /\ UNCHANGED <<agent, matchVars, tfidfVars, contextVars, added, kbVars, util>>

TfidfTrain(data) ==
    /\ agent = "TfidfAgent"
    /\ TfidfTrained(data)
    /\ op' = "train"
    /\ NoPredictYet(query', passed', response')
    /\ UNCHANGED <<agent, matchVars, contextVars, added, kbVars, util>>

TfidfAddExample(input, output, weight) ==
    /\ agent = "TfidfAgent"
    /\ TfidfTrained(add_example(input, output, weight))
    /\ op' = "add_example"
    /\ NoPredictYet(query', passed', response')
    /\ UNCHANGED <<agent, matchVars, contextVars, added, kbVars, util>>

TfidfPredict(input) ==
    /\ agent = "TfidfAgent"
    /\ query' = input
    /\ passed' = input
    /\ response' = TfidfAgent_predict(Self, input)
    /\ op' = "predict"
    /\ UNCHANGED <<agent, matchVars, tfidfVars, contextVars, added, kbVars, util>>

NextAgent ==
    \/ \E data \in MatchCorpora : MatchTrain(data)
    \/ \E e \in MatchExamples : MatchAddExample(e.input, e.output, e.weight)
    \/ \E q \in MatchQueries : MatchPredict(q)
    \/ \E data \in RankedCorpora : TfidfTrain(data)
    \/ \E e \in RankedExamples : TfidfAddExample(e.input, e.output, e.weight)
    \/ \E q \in RankedQueries \cup {CapitalQuery} : TfidfPredict(q)

SpecAgent == InitAgent /\ [][NextAgent]_vars

-----------------------------------------------------------------------------
(* One matcher trained from a KnowledgeBase and shared with a reader.  The *)
(* train call of the TfidfAgent is followed statement by statement: it     *)
(* holds the matcher by &mut self from its first statement to its return,  *)
(* and predict, which takes &self, cannot run in between.                  *)

KbExamples ==
    { Example(<<"a", " ", "b">>, Text(<<"x">>), 10),
      Example(<<"b", " ", "c">>, Markdown(<<"y">>), 10) }

KbQueries == { <<"b">>, <<"c", " ", "a">>, <<"a", " ", "b">> }

\* KnowledgeBase::add_example
KnowledgeBase_add_example(exs, input, output, weight) ==
    Append(exs, Example(input, output, weight))

\* Mutant: the last example leaves the list (pop) in place of the one at index.
KnowledgeBase_remove_example_pop(exs, index) ==
    IF index < Len(exs)
    THEN [result |-> Some(exs[index + 1]), examples |-> SubSeq(exs, 1, Len(exs) - 1)]
    ELSE [result |-> None, examples |-> exs]

\* KnowledgeBase::remove_example, index counted from 0: Ok(removed) and the
\* list without it, or Err and the list as it was.
KnowledgeBase_remove_example(exs, index) ==
    IF index < Len(exs)
    THEN [result |-> Some(exs[index + 1]),
          examples |-> SubSeq(exs, 1, index) \o SubSeq(exs, index + 2, Len(exs))]
    ELSE [result |-> None, examples |-> exs]

\* KnowledgeBase::get_examples
get_examples(exs) == exs

\* The terms of all inputs of a corpus.
CorpusTerms(data) == UNION {unique_terms(data[k].input) : k \in 1..Len(data)}

InitKb ==
    /\ agent \in {"MatchAgent", "TfidfAgent"}
    /\ strategy \in (IF agent = "MatchAgent" THEN {Exact, FuzzyOptionsDefault} ELSE {Exact})
    /\ memory = <<>>
    /\ SetSelf(TfidfAgent_new(12, 3))
    /\ context_history = <<>>
    /\ max_context_items = 0
    /\ context_format = "QAPairs"
    /\ op = "new"
    /\ NoPredictYet(query, passed, response)
    /\ added = <<>>
    /\ NoKnowledgeBase

\* Mutant: the knowledge base and the matcher share one list of examples.
KbAddExampleShared(input, output, weight) ==
    /\ ~writer
    /\ Len(examples) < MaxExamples
    /\ examples' = KnowledgeBase_add_example(examples, input, output, weight)
    /\ memory' = IF agent = "MatchAgent" THEN examples' ELSE memory
    /\ docs' = IF agent = "TfidfAgent" THEN examples' ELSE docs
    /\ op' = "kb_add_example"
    /\ UNCHANGED <<agent, strategy, term_df, doc_term_freq, doc_count, bm25_k1, bm25_b,
                   contextVars, lastVars, added, writer, request, stale, util>>

\* kb.add_example(..): not while a train call borrows kb.get_examples()
KbAddExample(input, output, weight) ==
    /\ ~writer
    /\ Len(examples) < MaxExamples
    /\ examples' = KnowledgeBase_add_example(examples, input, output, weight)
    /\ op' = "kb_add_example"
    /\ UNCHANGED <<agent, matchVars, tfidfVars, contextVars, lastVars, added,
                   writer, request, stale, util>>

\* kb.remove_example(index)
KbRemoveExample(index) ==
    /\ ~writer
    /\ examples' = KnowledgeBase_remove_example(examples, index).examples
    /\ op' = "kb_remove_example"
    /\ UNCHANGED <<agent, matchVars, tfidfVars, contextVars, lastVars, added,
                   writer, request, stale, util>>

\* agent.train(kb.get_examples()) on the MatchAgent: one assignment
KbMatchTrain ==
    /\ agent = "MatchAgent"
    /\ memory' = MatchAgent_train(get_examples(examples))
    /\ stale' = (\E k \in 1..Len(memory) :
                    \A j \in 1..Len(examples) : examples[j] # memory[k])
    /\ op' = "train"
    /\ NoPredictYet(query', passed', response')
    /\ UNCHANGED <<agent, strategy, tfidfVars, contextVars, added, examples, writer, request, util>>

\* Mutant: train without self.term_df.clear().
KbTrainBeginKeepTermDf ==
    /\ agent = "TfidfAgent"
    /\ ~writer
    /\ writer' = TRUE
    /\ docs' = get_examples(examples)
    /\ doc_count' = Len(examples)
    /\ doc_term_freq' = <<>>
    /\ stale' = (DOMAIN term_df \ CorpusTerms(examples) # {})
    /\ request' = "none"
    /\ op' = "train_begin"
    /\ NoPredictYet(query', passed', response')
    /\ UNCHANGED <<agent, matchVars, term_df, bm25_k1, bm25_b, contextVars, added, examples, util>>

\* agent.train(kb.get_examples()) on the TfidfAgent, the statements before the
\* loop: the corpus and the count are replaced and both tables are cleared.
KbTrainBegin ==
    /\ agent = "TfidfAgent"
    /\ ~writer
    /\ writer' = TRUE
    /\ docs' = get_examples(examples)
    /\ doc_count' = Len(examples)
    /\ term_df' = <<>>
    /\ doc_term_freq' = <<>>
    /\ stale' = (DOMAIN term_df \ CorpusTerms(examples) # {})
    /\ request' = "none"
    /\ op' = "train_begin"
    /\ NoPredictYet(query', passed', response')
    /\ UNCHANGED <<agent, matchVars, bm25_k1, bm25_b, contextVars, added, examples, util>>

\* one pass of the loop: the next document of self.docs
KbTrainStep ==
    /\ writer
    /\ Len(doc_term_freq) < Len(docs)
    /\ \E done \in {TrainDoc(docs[Len(doc_term_freq) + 1], term_df, doc_term_freq)} :
          /\ term_df' = done.term_df
          /\ doc_term_freq' = done.doc_term_freq
    /\ op' = "train_step"
    /\ UNCHANGED <<agent, matchVars, docs, doc_count, bm25_k1, bm25_b, contextVars,
                   lastVars, added, examples, writer, request, stale, util>>

\* the loop is over and train returns: &mut self is released
KbTrainEnd ==
    /\ writer
    /\ Len(doc_term_freq) = Len(docs)
    /\ writer' = FALSE
    /\ op' = "train"
    /\ UNCHANGED <<agent, matchVars, tfidfVars, contextVars, lastVars, added,
                   examples, request, stale, util>>

\* predict(input) issued when no train call is running: answered at once
KbPredict(input) ==
    /\ ~writer
    /\ request # "pending"
    /\ query' = input
    /\ passed' = input
    /\ response' = IF agent = "MatchAgent"
                   THEN MatchAgent_predict(memory, strategy, input)
                   ELSE TfidfAgent_predict(Self, input)
    /\ request' = "none"
    /\ op' = "predict"
    /\ UNCHANGED <<agent, matchVars, tfidfVars, contextVars, added, examples, writer, stale, util>>

\* Mutant: predict runs while train holds the matcher and reads the tables as
\* they are; where the code would index a table that is not filled yet, the
\* no-match sentinel stands for the outcome.
KbPredictDuringTrain(input) ==
    /\ writer
    /\ request = "none"
    /\ query' = input
    /\ passed' = input
    /\ response' = IF Len(doc_term_freq) = Len(docs)
                   THEN TfidfAgent_predict(Self, input)
                   ELSE NoMatch
    /\ request' = "served"
    /\ op' = "predict"
    /\ UNCHANGED <<agent, matchVars, tfidfVars, contextVars, added, examples, writer, stale, util>>

\* predict(input) issued while a train call is running: predict takes &self,
\* which cannot be had before train gives &mut self back, so the call waits.
KbPredictBlocked(input) ==
    /\ writer
    /\ request = "none"
    /\ query' = input
    /\ request' = "pending"
    /\ op' = "predict_blocked"
    /\ UNCHANGED <<agent, matchVars, tfidfVars, contextVars, passed, response, added,
                   examples, writer, stale, util>>

\* the waiting predict runs once train has returned
KbPredictResume ==
    /\ ~writer
    /\ request = "pending"
    /\ passed' = query
    /\ response' = TfidfAgent_predict(Self, query)
    /\ request' = "served"
    /\ op' = "predict"
    /\ UNCHANGED <<agent, matchVars, tfidfVars, contextVars, query, added, examples,
                   writer, stale, util>>

NextKb ==
    \/ \E e \in KbExamples : KbAddExample(e.input, e.output, e.weight)
    \/ \E index \in 0..MaxExamples : KbRemoveExample(index)
    \/ KbMatchTrain
    \/ KbTrainBegin
    \/ KbTrainStep
    \/ KbTrainEnd
    \/ \E q \in KbQueries : KbPredict(q)
    \/ \E q \in KbQueries : KbPredictBlocked(q)
    \/ KbPredictResume

SpecKb == InitKb /\ [][NextKb]_vars

-----------------------------------------------------------------------------
(* PdfLoader: cutting the text of a page into chunks.  A PdfLoaderConfig   *)
(* is the record of its three sizes, counted in characters, and of         *)
(* split_by_sentence.                                                      *)

PdfLoaderConfig(min, max, overlap, by_sentence) ==
    [min_chunk_size |-> min, max_chunk_size |-> max, chunk_overlap |-> overlap,
     split_by_sentence |-> by_sentence]

\* str::trim: the text without its leading and trailing whitespace
RECURSIVE trim(_)
trim(text) ==
    IF text = <<>> THEN <<>>
    ELSE IF IsWhitespace(Head(text)) THEN trim(Tail(text))
    ELSE IF IsWhitespace(text[Len(text)]) THEN trim(SubSeq(text, 1, Len(text) - 1))
    ELSE text

\* PdfLoader::split_into_sentences: a sentence ends with its '.', '!' or '?';
\* what follows the last of them is a sentence too
RECURSIVE split_into_sentences(_, _)
split_into_sentences(text, current_sentence) ==
    IF text = <<>>
    THEN IF current_sentence = <<>> THEN <<>> ELSE <<current_sentence>>
    ELSE LET pushed == Append(current_sentence, Head(text))
         IN  IF Head(text) \in {".", "!", "?"}
             THEN <<pushed>> \o split_into_sentences(Tail(text), <<>>)
             ELSE split_into_sentences(Tail(text), pushed)

\* text.chars().map(|c| c.to_string()).collect()
CharSegments(text) == [i \in 1..Len(text) |-> <<text[i]>>]

\* chars[from..], from counted from 0
CharsFrom(chars, from) == SubSeq(chars, from + 1, Len(chars))

\* split_text_into_chunks, the second half of the loop body: when the chunk is
\* longer than max_chunk_size after the segment was added, its first
\* max_chunk_size characters are pushed once and the rest is kept
CutOversize(config, chunks, current_chunk) ==
    IF Len(current_chunk) > config.max_chunk_size
    THEN [chunks |-> Append(chunks, SubSeq(current_chunk, 1, config.max_chunk_size)),
          current_chunk |->
              IF config.chunk_overlap > 0
              THEN CharsFrom(current_chunk, config.max_chunk_size - config.chunk_overlap)
              ELSE CharsFrom(current_chunk, config.max_chunk_size)]
    ELSE [chunks |-> chunks, current_chunk |-> current_chunk]

\* split_text_into_chunks, the body of the loop for one segment
ChunkSegment(config, chunks, current_chunk, segment) ==
    LET save == /\ Len(current_chunk) + Len(segment) > config.max_chunk_size
                /\ Len(current_chunk) >= config.min_chunk_size
        saved == IF save THEN Append(chunks, current_chunk) ELSE chunks
        kept == IF ~save THEN current_chunk
                ELSE IF config.chunk_overlap = 0 THEN <<>>
                ELSE IF Len(current_chunk) > config.chunk_overlap
                THEN CharsFrom(current_chunk, Len(current_chunk) - config.chunk_overlap)
                ELSE current_chunk
    IN  CutOversize(config, saved, kept \o segment)

\* split_text_into_chunks, the loop over the segments
RECURSIVE ChunkLoop(_, _, _, _)
ChunkLoop(config, segments, chunks, current_chunk) ==
    IF segments = <<>>
    THEN IF current_chunk # <<>> /\ Len(current_chunk) >= config.min_chunk_size
         THEN Append(chunks, current_chunk)
         ELSE chunks
    ELSE LET done == ChunkSegment(config, chunks, current_chunk, Head(segments))
         IN  ChunkLoop(config, Tail(segments), done.chunks, done.current_chunk)

\* PdfLoader::split_text_into_chunks
split_text_into_chunks(config, raw) ==
    LET text == trim(raw)
    IN  IF text = <<>> THEN <<>>
        ELSE IF Len(text) <= config.max_chunk_size THEN <<text>>
        ELSE ChunkLoop(config,
                       IF config.split_by_sentence
                       THEN split_into_sentences(text, <<>>)
                       ELSE CharSegments(text),
                       <<>>, <<>>)

-----------------------------------------------------------------------------
(* A KnowledgeBase on its own, the Result of remove_example kept.          *)

KnowledgeExamples ==
    KbExamples \cup {Example(<<"c">>, Json(<<"z">>), 20)}

InitKnowledge ==
    /\ agent = "MatchAgent"
    /\ strategy = Exact
    /\ memory = <<>>
    /\ SetSelf(TfidfAgent_new(12, 3))
    /\ context_history = <<>>
    /\ max_context_items = 0
    /\ context_format = "QAPairs"
    /\ op = "new"
    /\ NoPredictYet(query, passed, response)
    /\ added = <<>>
    /\ NoKnowledgeBase

\* let result = kb.remove_example(index)
KbRemoveExampleResult(index) ==
    /\ ~writer
    /\ \E removed \in {KnowledgeBase_remove_example(examples, index)} :
            /\ examples' = removed.examples
            /\ util' = [fn |-> "remove_example", index |-> index, result |-> removed.result]
    /\ op' = "kb_remove_example"
    /\ UNCHANGED <<agent, matchVars, tfidfVars, contextVars, lastVars, added,
                   writer, request, stale>>

NextKnowledge ==
    \/ \E e \in KnowledgeExamples : KbAddExample(e.input, e.output, e.weight)
    \/ \E index \in 0..MaxExamples : KbRemoveExampleResult(index)

SpecKnowledge == InitKnowledge /\ [][NextKnowledge]_vars

-----------------------------------------------------------------------------
(* One matcher asked whether it can answer.  The stored answers are of all *)
(* three payload variants; some of them hold the words of a sentinel.      *)

AnswerExamples ==
    { Example(<<"a">>, Text(<<"x">>), 10),
      Example(<<"b">>, Json(NoMatch.value), 10),
      Example(<<"c">>, Markdown(NoMatch.value), 10),
      Example(<<"d">>, Text(<<"x", ":", " ">> \o NoTrainingData.value), 10) }

AnswerQueries == {<<"a">>, <<"b">>, <<"c">>, <<"d">>, <<"z">>}

AnswerCorpora == SeqsUpTo(AnswerExamples, MaxCorpus)

InitAnswer ==
    /\ agent \in {"MatchAgent", "TfidfAgent"}
    /\ strategy \in (IF agent = "MatchAgent" THEN {Exact, FuzzyOptionsDefault} ELSE {Exact})
    /\ memory = <<>>
    /\ SetSelf(TfidfAgent_new(12, 3))
    /\ context_history = <<>>
    /\ max_context_items = 0
    /\ context_format = "QAPairs"
    /\ op = "new"
    /\ NoPredictYet(query, passed, response)
    /\ added = <<>>
    /\ NoKnowledgeBase

\* Agent::can_answer(input) on the matcher of the state: predict, then
\* confidence of its response, then the comparison with 0.5
CanAnswer(input) ==
    /\ query' = input
    /\ passed' = input
    /\ response' = IF agent = "MatchAgent"
                   THEN MatchAgent_predict(memory, strategy, input)
                   ELSE TfidfAgent_predict(Self, input)
    /\ util' = [fn |-> "can_answer", input |-> input,
                confidence |-> confidence(response'), result |-> can_answer(response')]
    /\ op' = "can_answer"
    /\ UNCHANGED <<agent, matchVars, tfidfVars, contextVars, added, kbVars>>

NextAnswer ==
    \/ \E data \in AnswerCorpora : MatchTrain(data)
    \/ \E data \in AnswerCorpora : TfidfTrain(data)
    \/ \E q \in AnswerQueries : CanAnswer(q)

SpecAnswer == InitAnswer /\ [][NextAnswer]_vars

-----------------------------------------------------------------------------
(* The text utilities called on their own.                                 *)

TextAlphabet == {"a", "b", "U+E4"}

\* The texts of at most MaxTextLen characters, and the pair of the crate's test.
Texts == SeqsUpTo(TextAlphabet, MaxTextLen)

TextPairs ==
    (Texts \X Texts)
        \cup { << <<"k", "i", "t", "t", "e", "n">>, <<"s", "i", "t", "t", "i", "n", "g">> >>,
               << <<"s", "i", "t", "t", "i", "n", "g">>, <<"k", "i", "t", "t", "e", "n">> >> }

InitText ==
    /\ agent = "MatchAgent"
    /\ strategy = Exact
    /\ memory = <<>>
    /\ SetSelf(TfidfAgent_new(12, 3))
    /\ context_history = <<>>
    /\ max_context_items = 0
    /\ context_format = "QAPairs"
    /\ op = "new"
    /\ NoPredictYet(query, passed, response)
    /\ added = <<>>
    /\ NoKnowledgeBase

\* text_utils::levenshtein_distance(a, b)
CallLevenshteinDistance(a, b) ==
    /\ util' = [fn |-> "levenshtein_distance", a |-> a, b |-> b,
                result |-> levenshtein_distance(a, b)]
    /\ UNCHANGED <<agent, matchVars, tfidfVars, contextVars, op, lastVars, added, kbVars>>

\* The texts a PdfLoader is given: letters, sentence ends and blanks.
ChunkTexts == SeqsUpTo({"a", ".", " "}, MaxChunkText)

\* The configurations a PdfLoader is given: any sizes with the overlap below
\* the maximum, and both ways of cutting.
ChunkConfigs ==
    { PdfLoaderConfig(min, max, overlap, by_sentence) :
        min \in 0..2, max \in 1..3, overlap \in 0..2, by_sentence \in BOOLEAN }

\* PdfLoader::with_config(config).split_text_into_chunks(text)
CallSplitTextIntoChunks(config, text) ==
    /\ config.chunk_overlap < config.max_chunk_size
    /\ util' = [fn |-> "split_text_into_chunks", config |-> config, text |-> text,
                result |-> split_text_into_chunks(config, text)]
    /\ UNCHANGED <<agent, matchVars, tfidfVars, contextVars, op, lastVars, added, kbVars>>

\* The texts jaccard_similarity is given: at most MaxWords words, each a
\* letter or a digit, with one blank between two of them; and the two texts of
\* the crate's test.
JaccardTexts == {Join(ws, <<" ">>) : ws \in SeqsUpTo({<<"a">>, <<"b">>, <<"1">>}, MaxWords)}

HelloWorld == <<"h", "e", "l", "l", "o", " ", "w", "o", "r", "l", "d">>
WorldHello == <<"w", "o", "r", "l", "d", " ", "h", "e", "l", "l", "o">>

JaccardPairs == (JaccardTexts \X JaccardTexts) \cup {<<HelloWorld, WorldHello>>}

\* text_utils::jaccard_similarity(a, b)
CallJaccardSimilarity(a, b) ==
    /\ util' = [fn |-> "jaccard_similarity", a |-> a, b |-> b,
                result |-> jaccard_similarity(a, b)]
    /\ UNCHANGED <<agent, matchVars, tfidfVars, contextVars, op, lastVars, added, kbVars>>

\* The texts create_ngrams is given, and the widths: 0 up to one more than
\* the longest of the short texts.
NgramTexts == Texts \cup {<<"k", "i", "t", "t", "e", "n">>}

NgramWidths == 0..(MaxTextLen + 1)

\* text_utils::create_ngrams(text, n)
CallCreateNgrams(text, n) ==
    /\ util' = [fn |-> "create_ngrams", text |-> text, n |-> n,
                result |-> create_ngrams(text, n)]
    /\ UNCHANGED <<agent, matchVars, tfidfVars, contextVars, op, lastVars, added, kbVars>>

\* The utilities are pure functions of their arguments: every call is followed
\* from the state before any call.
NextText ==
    \/ util = NoCall /\ \E p \in TextPairs : CallLevenshteinDistance(p[1], p[2])
    \/ util = NoCall /\ \E config \in ChunkConfigs, text \in ChunkTexts :
                            CallSplitTextIntoChunks(config, text)
    \/ util = NoCall /\ \E p \in JaccardPairs : CallJaccardSimilarity(p[1], p[2])
    \/ util = NoCall /\ \E text \in NgramTexts, n \in NgramWidths : CallCreateNgrams(text, n)

SpecText == InitText /\ [][NextText]_vars

-----------------------------------------------------------------------------
(* Properties of the context wrapper, checked under Spec.                  *)

\* C1: in every reachable state the context window holds at most
\* max_context_items pairs.
C1_WindowAtMostCapacity == Len(context_history) <= max_context_items

\* C1 witness: a full window after more add_context calls than its capacity.
C1_Witness ==
    /\ op = "add_context"
    /\ max_context_items >= 1
    /\ Len(added) > max_context_items
    /\ Len(context_history) = max_context_items

\* The last n elements of the sequence s.
LastN(s, n) == SubSeq(s, Len(s) - n + 1, Len(s))

\* C2: after k add_context calls with no clear_context in between, the window
\* holds exactly the last min(k, capacity) pairs added, oldest first.
C2_WindowIsLastAdded ==
    context_history = LastN(added, Min2(Len(added), max_context_items))

\* C2 witness: capacity + 1 calls, capacity entries, the first-added pair gone.
C2_Witness ==
    /\ max_context_items >= 2
    /\ Len(added) = max_context_items + 1
    /\ Len(context_history) = max_context_items
    /\ added[1] # added[2]
    /\ context_history[1] = added[2]

\* C3: whenever the window is empty, predict hands the raw query unchanged to
\* the wrapped matcher and returns what the wrapped matcher returns for it,
\* for every context format.
C3_EmptyWindowPassesRawQuery ==
    (op = "predict" /\ context_history = <<>>) =>
        /\ passed = query
        /\ response = MatchAgent_predict(memory, strategy, query)

\* C4: predict leaves the context window as it was; the window changes only
\* in add_context and clear_context.
C4_PredictKeepsWindow ==
    [][ /\ op' = "predict" => context_history' = context_history
        /\ context_history' # context_history => op' \in {"add_context", "clear_context"}
      ]_vars

\* C4 witness: a predict on a full window of two pairs, whose rendering was
\* handed to a trained base agent together with the query.
C4_Witness ==
    /\ op = "predict"
    /\ Len(context_history) = 2
    /\ memory # <<>>
    /\ passed = enhanced_input(context_format, context_history, query)
    /\ passed # query

\* The items with sep between every two of them, built from the last item back.
RECURSIVE Separated(_, _)
Separated(items, sep) ==
    IF items = <<>> THEN <<>>
    ELSE IF Len(items) = 1 THEN items[1]
    ELSE Separated(SubSeq(items, 1, Len(items) - 1), sep) \o sep \o items[Len(items)]

\* All items one after the other.
RECURSIVE Concatenated(_)
Concatenated(items) ==
    IF items = <<>> THEN <<>> ELSE Head(items) \o Concatenated(Tail(items))

\* The rendering C20 describes, for a window whose pairs are (q, a), oldest
\* first, a standing for the answer's string form.
Rendered(format, history) ==
    LET q(i) == history[i][1]
        a(i) == ResponseToString(history[i][2])
        n == Len(history)
    IN  CASE format = "QAPairs" ->
                Concatenated([i \in 1..n |->
                    <<"Q", ":", " ">> \o q(i) \o <<" ", "A", ":", " ">> \o a(i) \o <<" ">>])
          [] format = "List" ->
                <<"[">> \o Separated([i \in 1..n |-> q(i) \o <<" ", "-", ">", " ">> \o a(i)],
                                     <<",", " ">>) \o <<"]">>
          [] format = "Sentence" ->
                <<"P", "r", "e", "v", "i", "o", "u", "s", " ", "q", "u", "e", "s", "t", "i",
                  "o", "n", "s", " ", "a", "n", "d", " ", "a", "n", "s", "w", "e", "r", "s",
                  ":", " ">>
                \o Separated([i \in 1..n |-> q(i) \o <<" ", "-", " ">> \o a(i)], <<";", " ">>)
          [] OTHER -> CustomFormatter(format, history)

\* C20: when the window is not empty, predict hands the wrapped matcher
\* exactly "<query> [Context: <rendered>]", for every format, a custom
\* renderer included.
C20_NonEmptyWindowPassesContext ==
    (op = "predict" /\ context_history # <<>>) =>
        passed = query \o <<" ", "[", "C", "o", "n", "t", "e", "x", "t", ":", " ">>
                       \o Rendered(context_format, context_history) \o <<"]">>

\* C21: train on the wrapper leaves the wrapped matcher in the state a direct
\* train with the same data gives (a corpus of the caller, stored as given,
\* whatever the matcher held before), and leaves the window, its capacity, the
\* format and the matcher's strategy as they were.
C21_TrainForwardsUnchanged ==
    [][ op' = "train" =>
            /\ \E data \in ContextCorpora :
                    /\ memory' = MatchAgent_train(data)
                    /\ memory' = data
            /\ context_history' = context_history
            /\ max_context_items' = max_context_items
            /\ context_format' = context_format
            /\ strategy' = strategy
      ]_vars

\* C21 witness: a train call with a corpus of two examples on a wrapper whose
\* window is full with two pairs after three add_context calls.
C21_Witness ==
    /\ op = "train"
    /\ Len(context_history) = 2
    /\ Len(memory) = 2
    /\ Len(added) = 3

-----------------------------------------------------------------------------
(* Properties of the matchers, checked under SpecAgent.                    *)

\* The corpus the matcher of the state retains.
Corpus == IF agent = "MatchAgent" THEN memory ELSE docs

\* What the matcher of kind `kind`, holding mem (MatchAgent) or being self
\* (TfidfAgent), answers to the query q.
AnswerOf(kind, mem, strat, self, q) ==
    IF kind = "MatchAgent" THEN MatchAgent_predict(mem, strat, q)
    ELSE TfidfAgent_predict(self, q)

AllExamples == MatchExamples \cup RankedExamples

\* C5: add_example adds an example: the retained corpus becomes the corpus
\* before the call plus the new example, and a MatchAgent answers the inputs
\* of the earlier corpus as it did before the call.
C5_AddExampleExtendsCorpus ==
    [][ op' = "add_example" =>
          /\ \E e \in AllExamples : Corpus' = Append(Corpus, e)
          /\ agent = "MatchAgent" =>
                \A k \in 1..Len(Corpus) :
                    AnswerOf(agent, memory', strategy, Self', Corpus[k].input)
                        = AnswerOf(agent, memory, strategy, Self, Corpus[k].input)
      ]_vars

\* The least element of a non-empty set of integers.
MinOf(S) == CHOOSE m \in S : \A n \in S : m <= n

\* The examples whose case-folded input equals the case-folded query.
FoldedHits(mem, q) == {k \in 1..Len(mem) : to_lowercase(mem[k].input) = to_lowercase(q)}

ExactPredictOnCorpus ==
    agent = "MatchAgent" /\ strategy.kind = "Exact" /\ op = "predict" /\ memory # <<>>

\* C6: on a non-empty corpus the exact matcher returns the answer of the first
\* example, in corpus order, whose case-folded input equals the case-folded
\* query, and the no-match sentinel when there is none.
C6_ExactFirstFoldedMatch ==
    ExactPredictOnCorpus =>
        LET hits == FoldedHits(memory, query)
        IN  response = IF hits = {} THEN NoMatch ELSE memory[MinOf(hits)].output

\* C6 witness: a casing variant of a stored input as query, two examples with
\* that folded input and different answers.
C6_Witness ==
    /\ ExactPredictOnCorpus
    /\ \E j, k \in FoldedHits(memory, query) :
          /\ j < k
          /\ memory[j].output # memory[k].output
          /\ memory[j].input # query
          /\ memory[k].input # query

\* The edit distance by its definition: the least number of single-character
\* insertions, deletions and substitutions that turn a into b.
RECURSIVE EditDistance(_, _)
EditDistance(a, b) ==
    IF a = <<>> THEN Len(b)
    ELSE IF b = <<>> THEN Len(a)
    ELSE Min2(EditDistance(Tail(a), Tail(b)) + (IF Head(a) = Head(b) THEN 0 ELSE 1),
              Min2(EditDistance(Tail(a), b) + 1, EditDistance(a, Tail(b)) + 1))

\* EditDistance on the case-folded inputs and queries of the model, computed once.
EditTable ==
    [p \in {to_lowercase(e.input) : e \in MatchExamples}
            \X {to_lowercase(q) : q \in MatchQueries}
        |-> EditDistance(p[1], p[2])]

Distance(mem, k, q) == EditTable[<<to_lowercase(mem[k].input), to_lowercase(q)>>]

\* The examples the fuzzy options let through for the query q.
Eligible(mem, options, q) ==
    {k \in 1..Len(mem) :
        /\ options.max_distance # None => Distance(mem, k, q) <= Unwrap(options.max_distance)
        /\ options.threshold_factor # None
              => Distance(mem, k, q) <= ThresholdOf(options, to_lowercase(q))}

FuzzyPredictOnCorpus ==
    agent = "MatchAgent" /\ strategy.kind = "Fuzzy" /\ op = "predict" /\ memory # <<>>

\* C7: the fuzzy matcher returns the answer of the eligible example with the
\* smallest edit distance to the case-folded query, the earliest in corpus
\* order among those, and the no-match sentinel when no example is eligible.
C7_FuzzyNearestEligible ==
    FuzzyPredictOnCorpus =>
        LET eligible == Eligible(memory, strategy, query)
            nearest == {k \in eligible :
                           \A j \in eligible : Distance(memory, k, query) <= Distance(memory, j, query)}
        IN  response = IF eligible = {} THEN NoMatch ELSE memory[MinOf(nearest)].output

\* C7 witness: both caps set, two examples with different answers exactly at
\* the caps, the earlier one answered.
C7_Witness ==
    /\ FuzzyPredictOnCorpus
    /\ strategy.max_distance # None
    /\ strategy.threshold_factor # None
    /\ \E j, k \in Eligible(memory, strategy, query) :
          /\ j < k
          /\ Distance(memory, j, query) = Distance(memory, k, query)
          /\ Distance(memory, j, query) = Unwrap(strategy.max_distance)
          /\ Distance(memory, j, query) = ThresholdOf(strategy, to_lowercase(query))
          /\ Distance(memory, j, query) > 0
          /\ memory[j].output # memory[k].output
          /\ response = memory[j].output

\* C8 as stated: a query identical to a stored input is at distance 0 from it
\* and gets that example's answer, whatever else the corpus holds.
C8_IdenticalQueryGetsItsAnswer ==
    FuzzyPredictOnCorpus =>
        \A k \in 1..Len(memory) :
            memory[k].input = query =>
                /\ levenshtein(to_lowercase(memory[k].input), to_lowercase(query)) = 0
                /\ response = memory[k].output

\* C8 amended: a query identical to a stored input is at distance 0 from it and
\* gets the answer of the first example whose case-folded input equals the
\* case-folded query; that is the example itself when no earlier example has
\* the same case-folded input.
C8_IdenticalQueryGetsFirstFoldedMatch ==
    FuzzyPredictOnCorpus =>
        \A k \in 1..Len(memory) :
            memory[k].input = query =>
                /\ levenshtein(to_lowercase(memory[k].input), to_lowercase(query)) = 0
                /\ response = memory[MinOf(FoldedHits(memory, query))].output
                /\ (\A j \in 1..(k - 1) : j \notin FoldedHits(memory, query))
                      => response = memory[k].output

\* C8 witness: both caps at 0, the identical example second, behind an example
\* with another input and another answer.
C8_Witness ==
    /\ FuzzyPredictOnCorpus
    /\ strategy.max_distance = Some(0)
    /\ ThresholdOf(strategy, to_lowercase(query)) <= 1
    /\ Len(memory) >= 2
    /\ memory[2].input = query
    /\ query # <<>>
    /\ memory[1].output # memory[2].output
    /\ response = memory[2].output

\* C9: a matcher with an empty corpus (never trained, or last trained with an
\* empty corpus) answers every query with the no-training-data sentinel.
C9_EmptyCorpusSentinel ==
    (op = "predict" /\ Corpus = <<>>) => response = NoTrainingData

\* C9 witness: the ranked matcher asked the empty query on an empty corpus.
C9_Witness ==
    /\ op = "predict"
    /\ agent = "TfidfAgent"
    /\ Corpus = <<>>
    /\ query = <<>>
    /\ response = NoTrainingData

\* The final score of document i for the query of the state: BM25 times weight.
FinalScore(i) == FScale(bm25_score(Self, tokenize(query), i), docs[i].weight)

RankedPredictOnCorpus == agent = "TfidfAgent" /\ op = "predict" /\ docs # <<>>

\* C10: on a non-empty ranked matcher predict returns the no-match sentinel
\* when no document's final score is above 0, in particular when no token of
\* the query occurs in any document, and an answer it returns belongs to a
\* document whose final score is above 0.
C10_RankedNoMatchAtZero ==
    RankedPredictOnCorpus =>
        /\ (\A i \in 1..Len(docs) : ~FGreater(FinalScore(i), F(0))) => response = NoMatch
        /\ (\A i \in 1..Len(docs) : unique_terms(query) \cap unique_terms(docs[i].input) = {})
              => response = NoMatch
        /\ response # NoMatch
              => \E i \in 1..Len(docs) :
                    docs[i].output = response /\ FGreater(FinalScore(i), F(0))

\* C10 witness: a query with tokens, none of them in a document, answered
\* with the sentinel although the corpus has documents with terms.
C10_Witness ==
    /\ RankedPredictOnCorpus
    /\ unique_terms(query) # {}
    /\ \E i \in 1..Len(docs) : unique_terms(docs[i].input) # {}
    /\ \A i \in 1..Len(docs) : unique_terms(query) \cap unique_terms(docs[i].input) = {}
    /\ response = NoMatch

\* Document i holds every term of the query of the state, and no other
\* document holds any of them.
OnlyHolderOfQueryTerms(i) ==
    /\ unique_terms(query) # {}
    /\ unique_terms(query) \subseteq unique_terms(docs[i].input)
    /\ \A j \in 1..Len(docs) : j # i => unique_terms(query) \cap unique_terms(docs[j].input) = {}

\* C11: for any weights >= 0, a document that holds the query terms while no
\* other document holds any of them has a final score strictly above that of
\* every document sharing no term with the query, and predict returns its
\* answer.
C11_SoleHolderWins ==
    RankedPredictOnCorpus =>
        \A i \in 1..Len(docs) :
            OnlyHolderOfQueryTerms(i) =>
                /\ \A j \in 1..Len(docs) :
                      unique_terms(query) \cap unique_terms(docs[j].input) = {}
                          => FGreater(FinalScore(i), FinalScore(j))
                /\ response = docs[i].output

\* The documents whose final score for the query of the state is positive and
\* exceeded by no document's.
TopScored ==
    {i \in 1..Len(docs) :
        /\ FGreater(FinalScore(i), F(0))
        /\ \A j \in 1..Len(docs) : ~FGreater(FinalScore(j), FinalScore(i))}

\* C12: when two or more documents share the maximal positive final score,
\* predict returns the answer of the first of them in corpus order.
C12_TieGoesToFirst ==
    (RankedPredictOnCorpus /\ Cardinality(TopScored) >= 2)
        => response = docs[MinOf(TopScored)].output

-----------------------------------------------------------------------------
(* Properties of training from a KnowledgeBase, checked under SpecKb.      *)

\* C13: train replaces a matcher's state wholesale.  When a train call with
\* the corpus B (the examples of the knowledge base) has returned, whatever
\* the matcher held before, its corpus, document count, document-frequency
\* table and per-document term tables are those of a fresh matcher with the
\* same parameters trained with B alone, and so is its answer to every query.
C13_TrainReplacesWholesale ==
    (op = "train" /\ ~writer) =>
        IF agent = "TfidfAgent"
        THEN LET fresh == TfidfAgent_train(TfidfAgent_new(bm25_k1, bm25_b), examples)
             IN  /\ Self = fresh
                 /\ \A q \in KbQueries :
                       TfidfAgent_predict(Self, q) = TfidfAgent_predict(fresh, q)
        ELSE LET fresh == MatchAgent_train(examples)
             IN  /\ memory = fresh
                 /\ \A q \in KbQueries :
                       MatchAgent_predict(memory, strategy, q)
                           = MatchAgent_predict(fresh, strategy, q)

\* C13 witness: a ranked matcher whose index held terms of an earlier corpus
\* that the new, non-empty corpus lacks, after the train call has returned.
C13_Witness ==
    /\ op = "train"
    /\ ~writer
    /\ agent = "TfidfAgent"
    /\ stale
    /\ docs # <<>>
    /\ DOMAIN term_df = CorpusTerms(docs)
    /\ DOMAIN term_df # {}

\* C14: train stores a private copy of the corpus.  Adding an example to, or
\* removing one from, the knowledge base whose examples were passed to train
\* changes neither the matcher's state nor its answer to any query.
C14_SourceChangeKeepsAnswers ==
    [][ op' \in {"kb_add_example", "kb_remove_example"} =>
          /\ memory' = memory
          /\ Self' = Self
          /\ \A q \in KbQueries :
                AnswerOf(agent, memory', strategy, Self', q)
                    = AnswerOf(agent, memory, strategy, Self, q)
      ]_vars

\* C14 witness: the knowledge base was changed after a train call on a
\* non-empty corpus, and a matcher trained with its present examples would
\* answer some query differently.
C14_Witness ==
    /\ op \in {"kb_add_example", "kb_remove_example"}
    /\ Corpus # <<>>
    /\ examples # Corpus
    /\ \E q \in KbQueries :
          AnswerOf(agent, memory, strategy, Self, q)
              # AnswerOf(agent, MatchAgent_train(examples), strategy,
                         TfidfAgent_train(Self, examples), q)

\* C19: no predict on the shared ranked matcher observes a partially
\* rebuilt index.  Whenever predict has answered, no train call is running,
\* the tables are the complete index of the stored corpus (the one of the
\* last train call that returned), and the answer is the one that complete
\* index gives.
C19_PredictSeesCompleteIndex ==
    (op = "predict" /\ agent = "TfidfAgent") =>
        LET complete == TfidfAgent_train(TfidfAgent_new(bm25_k1, bm25_b), docs)
        IN  /\ ~writer
            /\ Self = complete
            /\ response = TfidfAgent_predict(complete, query)

\* C19 witness: a predict issued while train was rebuilding an index that
\* held other terms, answered from the new index after train returned.
C19_Witness ==
    /\ op = "predict"
    /\ agent = "TfidfAgent"
    /\ request = "served"
    /\ stale
    /\ docs # <<>>
    /\ response \notin {NoMatch, NoTrainingData}

-----------------------------------------------------------------------------
(* Properties of the matchers' configuration, checked under SpecAgent.     *)

\* C15: a malformed configuration is rejected at construction, so predict
\* never runs with one: the fuzzy threshold factor is not negative, k1 is
\* above 0 and b is in [0, 1].
C15_MalformedConfigRejected ==
    (op = "predict" /\ Corpus # <<>>) =>
        /\ (strategy.kind = "Fuzzy" /\ strategy.threshold_factor # None)
              => Unwrap(strategy.threshold_factor) >= 0
        /\ bm25_k1 > 0
        /\ bm25_b \in 0..4

\* The query of the state is empty or has no letter, and a predict on a
\* non-empty corpus has answered it.
LetterlessPredictOnCorpus ==
    /\ op = "predict"
    /\ Corpus # <<>>
    /\ \A k \in 1..Len(query) : ~IsAlphabetic(query[k])

\* C18 as stated: every matcher trained on a non-empty corpus answers an
\* empty query, or one without letters, with the no-match sentinel.
C18_LetterlessQueryGetsNoMatch ==
    LetterlessPredictOnCorpus => response = NoMatch

\* C18 amended: on such a query the ranked matcher returns the no-match
\* sentinel; the exact matcher returns it unless a stored input equals the
\* query case-folded, and then the first such example's answer; the fuzzy
\* matcher returns it unless its options leave an example eligible, and then
\* the answer of the nearest eligible example.
C18_LetterlessQueryGetsNoMatchUnlessMatched ==
    LetterlessPredictOnCorpus =>
        CASE agent = "TfidfAgent" -> response = NoMatch
          [] agent = "MatchAgent" /\ strategy.kind = "Exact" ->
                LET hits == FoldedHits(memory, query)
                IN  response = IF hits = {} THEN NoMatch ELSE memory[MinOf(hits)].output
          [] agent = "MatchAgent" /\ strategy.kind = "Fuzzy" ->
                LET eligible == Eligible(memory, strategy, query)
                    nearest == {k \in eligible :
                                   \A j \in eligible :
                                       Distance(memory, k, query) <= Distance(memory, j, query)}
                IN  response = IF eligible = {} THEN NoMatch
                               ELSE memory[MinOf(nearest)].output

\* C18 witness: a fuzzy matcher without caps answers the empty query with a
\* stored answer although no stored input is empty.
C18_Witness ==
    /\ LetterlessPredictOnCorpus
    /\ agent = "MatchAgent"
    /\ strategy = Fuzzy(None, None)
    /\ query = <<>>
    /\ \A k \in 1..Len(memory) : memory[k].input # <<>>
    /\ response # NoMatch

-----------------------------------------------------------------------------
(* Properties of the text utilities.                                       *)

\* The digits.
IsNumeric(c) == c \in {"0", "1", "2", "3", "4", "5", "6", "7", "8", "9"}

\* The tokens C16 describes: the lowercased text with every letter and every
\* digit kept, every other non-whitespace character deleted, split at
\* whitespace.
LetterDigitTokens(text) ==
    split_whitespace(
        SelectSeq(to_lowercase(text),
                  LAMBDA c : IsAlphabetic(c) \/ IsNumeric(c) \/ IsWhitespace(c)),
        <<>>)

\* C16: tokenize returns the lowercase whitespace-delimited tokens in which
\* letters and digits are kept and punctuation is deleted; so the ranked
\* matcher tokenizes its query that way, and the term table of every document
\* holds exactly those tokens of its input.
C16_TokenizeKeepsLettersAndDigits ==
    agent = "TfidfAgent" =>
        /\ op = "predict" => tokenize(query) = LetterDigitTokens(query)
        /\ \A i \in 1..Len(doc_term_freq) :
              LET tokens == LetterDigitTokens(docs[i].input)
              IN  /\ tokenize(docs[i].input) = tokens
                  /\ DOMAIN doc_term_freq[i] = {tokens[j] : j \in 1..Len(tokens)}

\* C17: levenshtein_distance(a, b) is the least number of single-character
\* insertions, deletions and substitutions that turn a into b, counted in
\* characters, for all a and b, empty ones and unequal lengths included.
C17_LevenshteinIsEditDistance ==
    util.fn = "levenshtein_distance" => util.result = EditDistance(util.a, util.b)

\* C17 witness: kitten and sitting are at distance 3.
C17_Witness ==
    /\ util.fn = "levenshtein_distance"
    /\ util.a = <<"k", "i", "t", "t", "e", "n">>
    /\ util.b = <<"s", "i", "t", "t", "i", "n", "g">>
    /\ util.result = 3

-----------------------------------------------------------------------------
(* The ranked matcher on the capitals example, checked under SpecAgent.    *)

CapitalPredict ==
    /\ agent = "TfidfAgent"
    /\ op = "predict"
    /\ docs = CapitalsCorpus
    /\ bm25_k1 = 12
    /\ bm25_b = 3
    /\ query = CapitalQuery

\* C22: trained with "capital of France" -> "Paris" and "capital of Germany"
\* -> "Berlin" (weight 1.0 each) and left at its default parameters, the ranked
\* matcher answers "What is the capital of France?" with "Paris": the first
\* document shares more query terms and its final score is the greater one.
C22_CapitalOfFranceIsParis ==
    CapitalPredict =>
        /\ response = Text(<<"P", "a", "r", "i", "s">>)
        /\ Cardinality(unique_terms(query) \cap unique_terms(docs[1].input))
              > Cardinality(unique_terms(query) \cap unique_terms(docs[2].input))
        /\ FGreater(FinalScore(1), FinalScore(2))
        /\ FGreater(FinalScore(2), F(0))

\* C22 witness: the query of the example answered on the corpus of the example.
C22_Witness ==
    /\ CapitalPredict
    /\ response = CapitalsCorpus[1].output

-----------------------------------------------------------------------------
(* Properties of the PdfLoader's chunks, checked under SpecText.           *)

\* C23: every chunk split_text_into_chunks returns has at most max_chunk_size
\* characters, for every text and every configuration whose chunk_overlap is
\* below max_chunk_size, with and without sentence splitting.
C23_ChunksAtMostMaxChunkSize ==
    util.fn = "split_text_into_chunks" =>
        \A i \in 1..Len(util.result) : Len(util.result[i]) <= util.config.max_chunk_size

-----------------------------------------------------------------------------
(* Properties of jaccard_similarity, checked under SpecText.               *)

\* The token sets of the two texts of the last call.
TokensA == unique_terms(util.a)
TokensB == unique_terms(util.b)

\* C24: jaccard_similarity(a, b) is 1.0 whenever a and b tokenize to the same
\* set of tokens, whatever the order and the repetition of the tokens, and it
\* is |A \cap B| / |A \cup B| of the two token sets wherever that ratio is
\* defined.
C24_JaccardIsRatioOfTokenSets ==
    util.fn = "jaccard_similarity" =>
        /\ TokensA = TokensB => util.result = Ratio(1, 1)
        /\ TokensA \cup TokensB # {} =>
                util.result = Ratio(Cardinality(TokensA \cap TokensB),
                                    Cardinality(TokensA \cup TokensB))

\* C24, amended: jaccard_similarity(a, b) is 1.0 whenever a and b tokenize to
\* the same set of at least one token, whatever the order and the repetition
\* of the tokens; it is |A \cap B| / |A \cup B| when one of the texts has a
\* token, and 0.0 when neither has one.
C24_JaccardIsRatioOfNonEmptyTokenSets ==
    util.fn = "jaccard_similarity" =>
        /\ (TokensA = TokensB /\ TokensA # {}) => util.result = Ratio(1, 1)
        /\ TokensA \cup TokensB # {} =>
                util.result = Ratio(Cardinality(TokensA \cap TokensB),
                                    Cardinality(TokensA \cup TokensB))
        /\ TokensA \cup TokensB = {} => util.result = 0

\* C24 witness: the two texts of the crate's test, the same two tokens in
\* another order, with similarity 1.0.
C24_Witness ==
    /\ util.fn = "jaccard_similarity"
    /\ util.a = HelloWorld
    /\ util.b = WorldHello
    /\ Cardinality(TokensA) = 2
    /\ util.result = Ratio(1, 1)

-----------------------------------------------------------------------------
(* Properties of create_ngrams, checked under SpecText.                    *)

\* The result of the last call holds the windows of n characters of the text,
\* one for every start, in order.
AllWindowsInOrder ==
    /\ Len(util.result) = Len(util.text) - util.n + 1
    /\ \A i \in 1..Len(util.result) :
            \A k \in 1..util.n : util.result[i][k] = util.text[i + k - 1]

\* C25: every string create_ngrams(text, n) returns has exactly n characters;
\* for a text of L >= n characters it returns the L - n + 1 consecutive
\* windows in order; it returns nothing when the text is empty or n = 0.
C25_NgramsHaveWidthN ==
    util.fn = "create_ngrams" =>
        /\ \A i \in 1..Len(util.result) : Len(util.result[i]) = util.n
        /\ (util.n > 0 /\ Len(util.text) >= util.n) => AllWindowsInOrder
        /\ (util.text = <<>> \/ util.n = 0) => util.result = <<>>

\* C25, amended: for a text of L >= n characters, n > 0, create_ngrams returns
\* the L - n + 1 consecutive windows in order, each of exactly n characters;
\* for a text that is not empty and has fewer than n characters it returns
\* the text itself as its only element; it returns nothing when the text is
\* empty or n = 0.
C25_NgramsHaveWidthNOrAreTheShortText ==
    util.fn = "create_ngrams" =>
        /\ (util.n > 0 /\ Len(util.text) >= util.n) =>
                /\ AllWindowsInOrder
                /\ \A i \in 1..Len(util.result) : Len(util.result[i]) = util.n
        /\ (util.text # <<>> /\ Len(util.text) < util.n) => util.result = <<util.text>>
        /\ (util.text = <<>> \/ util.n = 0) => util.result = <<>>

\* C25 witness: the five windows of two characters of "kitten".
C25_Witness ==
    /\ util.fn = "create_ngrams"
    /\ util.text = <<"k", "i", "t", "t", "e", "n">>
    /\ util.n = 2
    /\ util.result = << <<"k", "i">>, <<"i", "t">>, <<"t", "t">>, <<"t", "e">>, <<"e", "n">> >>

-----------------------------------------------------------------------------
(* Properties of the ranked matcher's index, checked under SpecAgent.      *)

\* The number of times the token t occurs in the text.
Occurrences(t, text) ==
    LET tokens == tokenize(text) IN Cardinality({j \in 1..Len(tokens) : tokens[j] = t})

\* The documents whose term table contains t.
DocsWith(t) == {i \in 1..Len(doc_term_freq) : t \in DOMAIN doc_term_freq[i]}

\* C26: after every train call on the ranked matcher the index agrees with the
\* stored corpus.  The document count, the number of stored examples and the
\* number of term tables are equal; table i maps exactly the tokens of input i,
\* each to the number of its occurrences there; a term is indexed exactly when
\* a table contains it, and its document frequency is the number of those
\* tables, which lies between 1 and the document count.
C26_IndexConsistentAfterTrain ==
    (agent = "TfidfAgent" /\ op \in {"train", "add_example"}) =>
        /\ doc_count = Len(docs)
        /\ Len(doc_term_freq) = Len(docs)
        /\ \A i \in 1..Len(docs) :
                /\ DOMAIN doc_term_freq[i] = unique_terms(docs[i].input)
                /\ \A t \in DOMAIN doc_term_freq[i] :
                        doc_term_freq[i][t] = Occurrences(t, docs[i].input)
        /\ DOMAIN term_df = UNION {DOMAIN doc_term_freq[i] : i \in 1..Len(doc_term_freq)}
        /\ \A t \in DOMAIN term_df :
                /\ term_df[t] = Cardinality(DocsWith(t))
                /\ 1 <= term_df[t]
                /\ term_df[t] <= doc_count

\* C26 witness: a train call with two documents that share a term, one of
\* them holding it twice, and with a term of one document only.
C26_Witness ==
    /\ agent = "TfidfAgent"
    /\ op = "train"
    /\ Len(docs) = 2
    /\ \E t \in DOMAIN term_df :
            /\ term_df[t] = 2
            /\ \E i \in 1..2 : t \in DOMAIN doc_term_freq[i] /\ doc_term_freq[i][t] = 2
    /\ \E t \in DOMAIN term_df : term_df[t] = 1

-----------------------------------------------------------------------------
(* The unit of the fuzzy matcher's derived cap, checked under SpecAgent.   *)

\* floor(f * n) for the factor of the options, in tenths, and n characters; as
\* a usize it is 0 for a factor below zero.
CapOfCharacters(options, n) ==
    LET tenths == n * Unwrap(options.threshold_factor)
    IN  IF tenths < 0 THEN 0 ELSE tenths \div 10

\* C27: the cap the fuzzy matcher derives from the threshold factor is
\* floor(f * query length) with the case-folded query measured in characters,
\* the unit of the edit distance: a query with multi-byte characters gets the
\* cap of an ASCII query with as many characters, and an answer is never that
\* of an example further away than this cap.
C27_FuzzyCapCountsCharacters ==
    (FuzzyPredictOnCorpus /\ strategy.threshold_factor # None) =>
        LET cap == CapOfCharacters(strategy, Len(to_lowercase(query)))
        IN  /\ ThresholdOf(strategy, to_lowercase(query)) = cap
            /\ response # NoMatch =>
                    \E k \in 1..Len(memory) :
                        /\ memory[k].output = response
                        /\ Distance(memory, k, query) <= cap

-----------------------------------------------------------------------------
(* The divisions of the ranked matcher's predict, checked under SpecAgent. *)

\* C28: predict on the ranked matcher never divides by zero.  On an empty
\* corpus it returns before any division; on a non-empty corpus, with k1 > 0
\* and b in [0, 1], the document count that divides the summed lengths is not
\* zero, and for every document, without terms or with, and every query term
\* of the index the average length that divides the document's length is not
\* zero and the BM25 denominator is not zero.
C28_PredictNeverDividesByZero ==
    (agent = "TfidfAgent" /\ op = "predict" /\ bm25_k1 > 0 /\ bm25_b \in 0..4) =>
        /\ docs = <<>> => response = NoTrainingData
        /\ docs # <<>> =>
                /\ doc_count # 0
                /\ \A i \in 1..Len(docs) :
                        \A t \in unique_terms(query) \cap DOMAIN term_df :
                            /\ TotalLen(doc_term_freq) # 0
                            /\ ~TermScore(Self, t, i).nan

-----------------------------------------------------------------------------
(* Properties of can_answer and confidence, checked under SpecAnswer.      *)

\* The response is an answer stored in the corpus, not one of the sentinels.
IsStoredAnswer(r) == r \notin {NoMatch, NoTrainingData}

\* C29: can_answer(q) is true exactly when predict(q) is a stored answer, not
\* the no-match and not the no-training-data sentinel, whatever the payload
\* variant and the text of the stored answer; confidence(q) is 0.0 for the two
\* sentinels and 1.0 otherwise.
C29_CanAnswerIffStoredAnswer ==
    op = "can_answer" =>
        LET predicted == AnswerOf(agent, memory, strategy, Self, query)
        IN  /\ util.result = IsStoredAnswer(predicted)
            /\ util.confidence = IF IsStoredAnswer(predicted) THEN 10 ELSE 0

-----------------------------------------------------------------------------
(* Properties of KnowledgeBase::remove_example, checked under              *)
(* SpecKnowledge.                                                          *)

====
